---- MODULE Spec2Model ----
(***************************************************************************)
(* A model of github.com/cdzombak/golang-moving-average: the ring store    *)
(* movingStats (ma.go) and its sync.RWMutex wrapper concurrentMovingStats. *)
(*                                                                         *)
(* float64 values are records [kind, n, d]: kind "fin" is the rational     *)
(* n/d in lowest terms (d > 0), kind "nan" is NaN, kind "inf" is the       *)
(* infinity of sign n.  Rounding of finite arithmetic is not modelled.     *)
(* Go slices are records [arr, len, own]: arr names the backing array       *)
(* ("values": the array made by New and held by movingStats.values;        *)
(* "retv": an array made by a Values call, reachable through this slice    *)
(* alone, whose contents are the field own; "nil": no array), len is the   *)
(* slice length; every slice of the program starts at index 0 of its array.*)
(*                                                                         *)
(* Specifications:                                                         *)
(*   Spec       the bare store of New, Window >= 1, one caller             *)
(*   SpecZ      the bare store of New with Window <= 0                     *)
(*   SpecC      the wrapped store shared by goroutines; callbacks call     *)
(*              nothing                                                    *)
(*   SpecD      the wrapped store used by one goroutine alone              *)
(*   SpecR      the wrapped store with callbacks that call its methods     *)
(*   FairSpecR  SpecR under the fairness of the Go scheduler and mutex     *)
(***************************************************************************)
EXTENDS Integers, Sequences, FiniteSets, TLC

\* ------------------------------------------------------------------ bounds
MaxWindow == 2      \* Options.Window ranges over 1..MaxWindow
MaxAdds == 3        \* values passed to Add in one behaviour, filtered ones included
MaxArgs == 2        \* values of one variadic Add call
NumThreads == 2     \* goroutines sharing one wrapped store

\* ------------------------------------------------------------------ float64
Fin(k) == [kind |-> "fin", n |-> k, d |-> 1]
NaN == [kind |-> "nan", n |-> 0, d |-> 1]
Inf(sign) == [kind |-> "inf", n |-> sign, d |-> 1]

\* The values callers add: two finite numbers, NaN, +Inf and -Inf.
Sample == {Fin(1), Fin(2), NaN, Inf(1), Inf(-1)}

\* A value no caller adds through Add: what a caller writes into a slice it holds.
Scribble == Fin(7)

IsNaN(f) == f.kind = "nan"

\* Mutant: math.IsInf(f, 1), the positive infinity alone.
IsInf_PositiveOnly(f) == f.kind = "inf" /\ f.n > 0

\* math.IsInf(f, 0): either infinity.
IsInf(f) == f.kind = "inf"

Abs(k) == IF k < 0 THEN -k ELSE k

RECURSIVE GCD(_, _)
GCD(a, b) == IF b = 0 THEN a ELSE GCD(b, a % b)

\* The rational p/q (q > 0) in lowest terms.
Ratio(p, q) ==
    LET g == GCD(Abs(p), q)
    IN  [kind |-> "fin", n |-> p \div g, d |-> q \div g]

\* a + b of IEEE 754.
FAdd(a, b) ==
    IF IsNaN(a) \/ IsNaN(b) THEN NaN
    ELSE IF IsInf(a) /\ IsInf(b) THEN (IF a.n = b.n THEN a ELSE NaN)
    ELSE IF IsInf(a) THEN a
    ELSE IF IsInf(b) THEN b
    ELSE Ratio(a.n * b.d + b.n * a.d, a.d * b.d)

\* a / float64(k), k > 0.
FDivInt(a, k) ==
    IF a.kind = "fin" THEN Ratio(a.n, a.d * k) ELSE a

\* a < b of IEEE 754: false when either side is NaN.
FLess(a, b) ==
    IF IsNaN(a) \/ IsNaN(b) THEN FALSE
    ELSE IF IsInf(a) THEN a.n < 0 /\ ~(IsInf(b) /\ b.n < 0)
    ELSE IF IsInf(b) THEN b.n > 0
    ELSE a.n * b.d < b.n * a.d

\* The order of sort.Float64s: NaN sorts before every other value.
SortLess(a, b) == FLess(a, b) \/ (IsNaN(a) /\ ~IsNaN(b))

\* --------------------------------------------- github.com/montanaflynn/stats
\* A result-or-error pair.
Result(v, e) == [val |-> v, err |-> e]

RECURSIVE SumSeq(_)
SumSeq(s) == IF s = <<>> THEN Fin(0) ELSE FAdd(SumSeq(SubSeq(s, 1, Len(s) - 1)), s[Len(s)])

Mean(s) ==
    IF Len(s) = 0 THEN Result(NaN, TRUE)
    ELSE Result(FDivInt(SumSeq(s), Len(s)), FALSE)

RECURSIVE MinFrom(_, _, _)
MinFrom(s, i, m) ==
    IF i > Len(s) THEN m
    ELSE MinFrom(s, i + 1, IF FLess(s[i], m) THEN s[i] ELSE m)

StatMin(s) ==
    IF Len(s) = 0 THEN Result(NaN, TRUE)
    ELSE Result(MinFrom(s, 2, s[1]), FALSE)

RECURSIVE MaxFrom(_, _, _)
MaxFrom(s, i, m) ==
    IF i > Len(s) THEN m
    ELSE MaxFrom(s, i + 1, IF FLess(m, s[i]) THEN s[i] ELSE m)

StatMax(s) ==
    IF Len(s) = 0 THEN Result(NaN, TRUE)
    ELSE Result(MaxFrom(s, 2, s[1]), FALSE)

\* x inserted into the sorted sequence s, after the elements not greater than it.
RECURSIVE Insert(_, _)
Insert(s, x) ==
    IF s = <<>> THEN <<x>>
    ELSE IF SortLess(x, s[1]) THEN <<x>> \o s
    ELSE <<s[1]>> \o Insert(Tail(s), x)

RECURSIVE SortedCopy(_)
SortedCopy(s) ==
    IF s = <<>> THEN <<>>
    ELSE Insert(SortedCopy(SubSeq(s, 1, Len(s) - 1)), s[Len(s)])

StatMedian(s) ==
    LET c == SortedCopy(s)
        l == Len(c)
    IN  IF l = 0 THEN Result(NaN, TRUE)
        ELSE IF l % 2 = 0 THEN Result(Mean(SubSeq(c, l \div 2, l \div 2 + 1)).val, FALSE)
        ELSE Result(c[l \div 2 + 1], FALSE)

\* ------------------------------------------------------------------- state
VARIABLES
    window,           \* movingStats.window
    values,           \* the contents of the backing array of movingStats.values
    valPos,           \* movingStats.valPos
    slotsFilled,      \* movingStats.slotsFilled
    ignoreNanValues,  \* movingStats.ignoreNanValues
    ignoreInfValues,  \* movingStats.ignoreInfValues
    panicked,         \* TRUE once a call has ended in a run-time panic
    ret,              \* what the last value-returning call returned to its caller
    added,            \* history: every value passed to Add so far, in order
    frames,           \* per thread, the wrapper calls it is in, the innermost last
    wlock,            \* the thread that holds the write side of concurrentMovingStats.mux
    readerCount,      \* the number of read locks held on concurrentMovingStats.mux
    peakReaders       \* history: the largest readerCount so far

store == <<window, values, valPos, slotsFilled, ignoreNanValues, ignoreInfValues>>
conc == <<frames, wlock, readerCount, peakReaders>>
vars == <<window, values, valPos, slotsFilled, ignoreNanValues, ignoreInfValues,
          panicked, ret, added, frames, wlock, readerCount, peakReaders>>

Threads == 1..NumThreads
NoThread == 0

NilSlice == [arr |-> "nil", len |-> 0, own |-> <<>>]

\* The return record of a call: op names the method, int/bool/val/err/slice hold
\* the result of the matching type and the zero value otherwise.
Ret(op, i, b, v, e, s) ==
    [op |-> op, int |-> i, bool |-> b, val |-> v, err |-> e, slice |-> s]

NoRet == Ret("none", 0, FALSE, Fin(0), FALSE, NilSlice)

\* The elements of a slice.
Data(s) ==
    IF s.arr = "values" THEN SubSeq(values, 1, s.len)
    ELSE IF s.arr = "retv" THEN SubSeq(s.own, 1, s.len)
    ELSE <<>>

\* New(opts): make([]float64, opts.Window) is zero-filled.
New(w, nan, inf) ==
    /\ window = w
    /\ values = [i \in 1..w |-> Fin(0)]
    /\ valPos = 0
    /\ slotsFilled = FALSE
    /\ ignoreNanValues = nan
    /\ ignoreInfValues = inf

Init ==
    /\ \E w \in 1..MaxWindow, nan \in BOOLEAN, inf \in BOOLEAN : New(w, nan, inf)
    /\ panicked = FALSE
    /\ ret = NoRet
    /\ added = <<>>
    /\ frames = [t \in Threads |-> <<>>]
    /\ wlock = NoThread
    /\ readerCount = 0
    /\ peakReaders = 0

\* ------------------------------------------------------------- movingStats
\* Mutant: the unused slots are not cut off (the window is padded with zeroes).
filledValues_Padded == [arr |-> "values", len |-> window, own |-> <<>>]

\* Mutant: c = ma.valPos in place of ma.valPos - 1, one slot too many.
filledValues_OffByOne ==
    IF slotsFilled THEN [arr |-> "values", len |-> window, own |-> <<>>]
    ELSE [arr |-> "values", len |-> valPos + 1, own |-> <<>>]

\* filledValues(): the live slice, a slice of the backing array itself.
filledValues ==
    IF ~slotsFilled /\ valPos - 1 < 0 THEN NilSlice
    ELSE [arr |-> "values", len |-> (IF slotsFilled THEN window - 1 ELSE valPos - 1) + 1,
          own |-> <<>>]

\* The ring fields an Add changes, with the panic flag.
Ring(vs, pos, filled, pan) ==
    [values |-> vs, valPos |-> pos, slotsFilled |-> filled, panicked |-> pan]

\* Mutant: either flag drops both NaN and the infinities.
Skipped_EitherFlag(val) ==
    (ignoreNanValues \/ ignoreInfValues) /\ (IsNaN(val) \/ IsInf(val))

\* Whether the loop body of Add skips val.
Skipped(val) ==
    \/ ignoreNanValues /\ IsNaN(val)
    \/ ignoreInfValues /\ IsInf(val)

\* Mutant: a full ring rejects the new value in place of overwriting the oldest.
AddOne_RejectWhenFull(r, val) ==
    IF r.panicked \/ Skipped(val) \/ r.slotsFilled THEN r
    ELSE LET pos == (r.valPos + 1) % window
         IN  Ring([r.values EXCEPT ![r.valPos + 1] = val], pos,
                  r.slotsFilled \/ pos = 0, FALSE)

\* Mutant: slotsFilled is never set.
AddOne_NeverFilled(r, val) ==
    IF r.panicked \/ Skipped(val) THEN r
    ELSE Ring([r.values EXCEPT ![r.valPos + 1] = val], (r.valPos + 1) % window,
              r.slotsFilled, FALSE)

\* Mutant: the test for valPos == 0 runs before the increment.
AddOne_FilledEarly(r, val) ==
    IF r.panicked \/ Skipped(val) THEN r
    ELSE Ring([r.values EXCEPT ![r.valPos + 1] = val], (r.valPos + 1) % window,
              r.slotsFilled \/ r.valPos = 0, FALSE)

\* Mutant: the cursor is incremented without the modulo.
AddOne_NoWrap(r, val) ==
    IF r.panicked \/ Skipped(val) THEN r
    ELSE IF r.valPos >= Len(r.values) \/ window = 0
         THEN Ring(r.values, r.valPos, r.slotsFilled, TRUE)
    ELSE Ring([r.values EXCEPT ![r.valPos + 1] = val], r.valPos + 1,
              r.slotsFilled \/ r.valPos + 1 = window, FALSE)

\* One iteration of the loop of Add on the ring r: a value that is not skipped
\* is written at valPos (a panic when that is no index of the array), the cursor
\* advances modulo window and slotsFilled is set when it is back at 0.
AddOne(r, val) ==
    IF r.panicked \/ Skipped(val) THEN r
    ELSE IF r.valPos >= Len(r.values) \/ window = 0
         THEN Ring(r.values, r.valPos, r.slotsFilled, TRUE)
    ELSE LET pos == (r.valPos + 1) % window
         IN  Ring([r.values EXCEPT ![r.valPos + 1] = val], pos,
                  r.slotsFilled \/ pos = 0, FALSE)

\* Mutant: the loop runs over vals from the last to the first.
RECURSIVE AddLoop_Reversed(_, _)
AddLoop_Reversed(r, vals) ==
    IF vals = <<>> THEN r
    ELSE AddLoop_Reversed(AddOne(r, vals[Len(vals)]), SubSeq(vals, 1, Len(vals) - 1))

\* The loop of Add over vals, in argument order.
RECURSIVE AddLoop(_, _)
AddLoop(r, vals) ==
    IF vals = <<>> THEN r
    ELSE AddLoop(AddOne(r, Head(vals)), Tail(vals))

\* The lists of values one Add call may pass.
ArgLists == UNION {[1..k -> Sample] : k \in 0..MaxArgs}

Add(vals) ==
    /\ ~panicked
    /\ Len(added) + Len(vals) <= MaxAdds
    /\ LET r == AddLoop(Ring(values, valPos, slotsFilled, FALSE), vals)
       IN  /\ values' = r.values
           /\ valPos' = r.valPos
           /\ slotsFilled' = r.slotsFilled
           /\ panicked' = r.panicked
    /\ added' = added \o vals
    /\ UNCHANGED <<window, ignoreNanValues, ignoreInfValues, ret, conc>>

\* Every read-only method X is an action X that hands XRet, the value the method
\* returns in the current state, to the caller.
WindowRet == Ret("Window", window, FALSE, Fin(0), FALSE, NilSlice)

Window ==
    /\ ~panicked
    /\ ret' = WindowRet
    /\ UNCHANGED <<store, panicked, added, conc>>

SlotsFilledRet == Ret("SlotsFilled", 0, slotsFilled, Fin(0), FALSE, NilSlice)

SlotsFilled ==
    /\ ~panicked
    /\ ret' = SlotsFilledRet
    /\ UNCHANGED <<store, panicked, added, conc>>

\* Mutant: internal is returned as it is, without the copy.
Values_NoCopy ==
    /\ ~panicked
    /\ ret' = Ret("Values", 0, FALSE, Fin(0), FALSE, filledValues)
    /\ UNCHANGED <<store, panicked, added, conc>>

\* Values(): make a new array of len(internal) elements, copy internal into it
\* and return the slice of the new array.
Values ==
    /\ ~panicked
    /\ ret' = Ret("Values", 0, FALSE, Fin(0), FALSE,
                  [arr |-> "retv", len |-> filledValues.len, own |-> Data(filledValues)])
    /\ UNCHANGED <<store, panicked, added, conc>>

CountRet == Ret("Count", filledValues.len, FALSE, Fin(0), FALSE, NilSlice)

Count ==
    /\ ~panicked
    /\ ret' = CountRet
    /\ UNCHANGED <<store, panicked, added, conc>>

\* Mutant: the error is not looked at.
OrZero_ErrIgnored(res) == res.val

\* if err != nil { return 0.0 }; return retv
OrZero(res) == IF res.err THEN Fin(0) ELSE res.val

AvgRet == Ret("Avg", 0, FALSE, OrZero(Mean(Data(filledValues))), FALSE, NilSlice)

Avg ==
    /\ ~panicked
    /\ ret' = AvgRet
    /\ UNCHANGED <<store, panicked, added, conc>>

MedianRet == Ret("Median", 0, FALSE, OrZero(StatMedian(Data(filledValues))), FALSE, NilSlice)

Median ==
    /\ ~panicked
    /\ ret' = MedianRet
    /\ UNCHANGED <<store, panicked, added, conc>>

MinRet == Ret("Min", 0, FALSE, OrZero(StatMin(Data(filledValues))), FALSE, NilSlice)

Min ==
    /\ ~panicked
    /\ ret' = MinRet
    /\ UNCHANGED <<store, panicked, added, conc>>

MaxRet == Ret("Max", 0, FALSE, OrZero(StatMax(Data(filledValues))), FALSE, NilSlice)

Max ==
    /\ ~panicked
    /\ ret' = MaxRet
    /\ UNCHANGED <<store, panicked, added, conc>>

\* The reducers callers pass to UnsafeDoStat: stats.Mean, stats.Max.
StatReducers == {"Mean", "Max"}

\* The callbacks callers pass to UnsafeDo: one returns nil, one returns an error.
DoReducers == {"Ok", "Fail"}

\* f(data) for a reducer f: the result-or-error pair it returns.
Apply(f, data) ==
    CASE f = "Mean" -> Mean(data)
      [] f = "Max" -> StatMax(data)
      [] f = "Ok" -> Result(Fin(0), FALSE)
      [] f = "Fail" -> Result(Fin(0), TRUE)

\* Mutant: the error of f is swallowed as Avg swallows it: 0.0 and no error.
UnsafeDoStatRet_ErrSwallowed(f) ==
    LET res == Apply(f, Data(filledValues))
    IN  Ret("UnsafeDoStat", 0, FALSE, OrZero(res), FALSE, filledValues)

\* UnsafeDoStat(f): f runs on the live slice itself; slice is what f received.
UnsafeDoStatRet(f) ==
    LET res == Apply(f, Data(filledValues))
    IN  Ret("UnsafeDoStat", 0, FALSE, res.val, res.err, filledValues)

UnsafeDoStat(f) ==
    /\ ~panicked
    /\ ret' = UnsafeDoStatRet(f)
    /\ UNCHANGED <<store, panicked, added, conc>>

UnsafeDoRet(f) ==
    LET res == Apply(f, Data(filledValues))
    IN  Ret("UnsafeDo", 0, FALSE, Fin(0), res.err, filledValues)

UnsafeDo(f) ==
    /\ ~panicked
    /\ ret' = UnsafeDoRet(f)
    /\ UNCHANGED <<store, panicked, added, conc>>

\* The caller writes Scribble into element i (from 0) of the slice Values returned.
CallerWrite(i) ==
    /\ ~panicked
    /\ ret.op = "Values"
    /\ i < ret.slice.len
    /\ IF ret.slice.arr = "values"
       THEN /\ values' = [values EXCEPT ![i + 1] = Scribble]
            /\ ret' = ret
       ELSE /\ ret' = [ret EXCEPT !.slice.own[i + 1] = Scribble]
            /\ values' = values
    /\ UNCHANGED <<window, valPos, slotsFilled, ignoreNanValues, ignoreInfValues,
                   panicked, added, conc>>

Next ==
    \/ \E vals \in ArgLists : Add(vals)
    \/ Window
    \/ SlotsFilled
    \/ Values
    \/ Count
    \/ Avg
    \/ Median
    \/ Min
    \/ Max
    \/ \E f \in StatReducers : UnsafeDoStat(f)
    \/ \E f \in DoReducers : UnsafeDo(f)
    \/ \E i \in 0..(MaxWindow - 1) : CallerWrite(i)

Spec == Init /\ [][Next]_vars

\* ---------------------------------------------------- New with Window <= 0
\* New does not look at opts.Window.  With Window 0, make([]float64, 0) gives
\* an empty buffer and New returns the store.  With a negative Window the make
\* panics (len out of range) and New returns nothing.
DegenerateWindows == {-1, 0}

InitZ ==
    /\ \E w \in DegenerateWindows, nan \in BOOLEAN, inf \in BOOLEAN :
          /\ New(w, nan, inf)
          /\ panicked = (w < 0)
    /\ ret = NoRet
    /\ added = <<>>
    /\ frames = [t \in Threads |-> <<>>]
    /\ wlock = NoThread
    /\ readerCount = 0
    /\ peakReaders = 0

\* The methods of the store New returned; the slice Values returns is empty,
\* so the caller has no element of it to write.
NextZ ==
    \/ \E vals \in ArgLists : Add(vals)
    \/ Window
    \/ SlotsFilled
    \/ Values
    \/ Count
    \/ Avg
    \/ Median
    \/ Min
    \/ Max
    \/ \E f \in StatReducers : UnsafeDoStat(f)
    \/ \E f \in DoReducers : UnsafeDo(f)

SpecZ == InitZ /\ [][NextZ]_vars

\* --------------------------------------------------- concurrentMovingStats
\* The wrapper's methods run in NumThreads goroutines, a step at a time.  A
\* frame is one call in progress: pc is where it stands, vals the values its
\* Add has still to go through, n how many it has gone through, ret what its
\* delegate returned.
\*   Add:        "Lock" -> "Drain" -> "Body" (-> "Advance" -> "Body")* -> return
\*   read-only:  "RLock" -> ("RBlocked" ->) "RBody" -> "RUnlock" -> return
Frame(pc, vals, r) == [pc |-> pc, vals |-> vals, ret |-> r, n |-> 0]

\* The frame of an Add in its loop.
AddFrame(pc, vals, n) == [pc |-> pc, vals |-> vals, ret |-> NoRet, n |-> n]

Idle(t) == frames[t] = <<>>
Top(t) == frames[t][Len(frames[t])]
At(t, pc) == ~Idle(t) /\ Top(t).pc = pc
Push(fs, t, fr) == [fs EXCEPT ![t] = Append(@, fr)]
SetTop(fs, t, fr) == [fs EXCEPT ![t] = [@ EXCEPT ![Len(@)] = fr]]
Pop(fs, t) == [fs EXCEPT ![t] = SubSeq(@, 1, Len(@) - 1)]

\* The values goroutines add, and the lists one wrapped Add call may pass.
ConcSample == {Fin(1), NaN}
ConcArgLists == UNION {[1..k -> ConcSample] : k \in 0..MaxArgs}

\* sync.RWMutex.  Lock takes the write side as soon as no other writer has it,
\* which stops new readers, and returns when the readers that hold the lock have
\* left.  RLock takes a read lock unless a writer has the write side: then it
\* blocks until that writer's Unlock.  Unlock hands the read lock to every
\* reader blocked by then and frees the write side.
RLockGranted == wlock = NoThread
LockDrained == readerCount = 0
BlockedReaders == {u \in Threads : At(u, "RBlocked")}
Unblock(fs) ==
    [u \in Threads |->
        IF u \in BlockedReaders
        THEN [fs[u] EXCEPT ![Len(fs[u])] = Frame("RBody", <<>>, NoRet)]
        ELSE fs[u]]

\* A goroutine calls c.Add(values...): next is c.mux.Lock().
CAdd(t) ==
    /\ Idle(t)
    /\ frames' = Push(frames, t, Frame("Lock", <<>>, NoRet))
    /\ UNCHANGED <<store, panicked, ret, added, wlock, readerCount, peakReaders>>

\* Mutant: Add takes the read lock, c.mux.RLock(), and goes on.
CAddLock_RLock(t) ==
    /\ At(t, "Lock")
    /\ RLockGranted
    /\ readerCount' = readerCount + 1
    /\ \E vals \in ConcArgLists :
          /\ Len(added) + Len(vals) <= MaxAdds
          /\ frames' = SetTop(frames, t, AddFrame("Body", vals, 0))
    /\ UNCHANGED <<store, panicked, ret, added, wlock, peakReaders>>

\* Mutant: Add goes on without the lock.
CAddLock_NoLock(t) ==
    /\ At(t, "Lock")
    /\ frames' = SetTop(frames, t, Frame("Drain", <<>>, NoRet))
    /\ UNCHANGED <<store, panicked, ret, added, wlock, readerCount, peakReaders>>

\* c.mux.Lock(), first half: the write side is taken.
CAddLock(t) ==
    /\ At(t, "Lock")
    /\ wlock = NoThread
    /\ wlock' = t
    /\ frames' = SetTop(frames, t, Frame("Drain", <<>>, NoRet))
    /\ UNCHANGED <<store, panicked, ret, added, readerCount, peakReaders>>

\* Mutant: the Unlock is not deferred: it runs before c.ma.Add(values...).
CAddLocked_EarlyUnlock(t, vals) ==
    /\ At(t, "Drain")
    /\ LockDrained
    /\ Len(added) + Len(vals) <= MaxAdds
    /\ wlock' = NoThread
    /\ frames' = SetTop(frames, t, AddFrame("Body", vals, 0))
    /\ UNCHANGED <<store, panicked, ret, added, readerCount, peakReaders>>

\* c.mux.Lock() returns and c.ma.Add(values...) begins; vals are the values of
\* the call, which nothing has looked at before.
CAddLocked(t, vals) ==
    /\ At(t, "Drain")
    /\ LockDrained
    /\ Len(added) + Len(vals) <= MaxAdds
    /\ frames' = SetTop(frames, t, AddFrame("Body", vals, 0))
    /\ UNCHANGED <<store, panicked, ret, added, wlock, readerCount, peakReaders>>

\* One iteration of the loop of c.ma.Add, up to the write: a skipped value is
\* passed over, any other is stored at values[valPos] (a panic when that is no
\* index of the array).
CAddStep(t) ==
    /\ At(t, "Body")
    /\ Top(t).vals # <<>>
    /\ ~panicked
    /\ LET val == Head(Top(t).vals)
       IN  /\ added' = Append(added, val)
           /\ IF Skipped(val)
              THEN /\ frames' = SetTop(frames, t,
                                       AddFrame("Body", Tail(Top(t).vals), Top(t).n + 1))
                   /\ UNCHANGED <<values, panicked>>
              ELSE IF valPos >= Len(values)
              THEN /\ panicked' = TRUE
                   /\ UNCHANGED <<values, frames>>
              ELSE /\ values' = [values EXCEPT ![valPos + 1] = val]
                   /\ frames' = SetTop(frames, t, AddFrame("Advance", Top(t).vals, Top(t).n))
                   /\ UNCHANGED panicked
    /\ UNCHANGED <<window, valPos, slotsFilled, ignoreNanValues, ignoreInfValues, ret,
                   wlock, readerCount, peakReaders>>

\* The rest of the iteration: the cursor advances modulo window and slotsFilled
\* is set when it is back at 0.
CAddAdvance(t) ==
    /\ At(t, "Advance")
    /\ valPos' = (valPos + 1) % window
    /\ slotsFilled' = (slotsFilled \/ valPos' = 0)
    /\ frames' = SetTop(frames, t, AddFrame("Body", Tail(Top(t).vals), Top(t).n + 1))
    /\ UNCHANGED <<window, values, ignoreNanValues, ignoreInfValues, panicked, ret, added,
                   wlock, readerCount, peakReaders>>

\* The loop is over: the deferred c.mux.Unlock() runs and Add returns.
CAddUnlock(t) ==
    /\ At(t, "Body")
    /\ Top(t).vals = <<>>
    /\ wlock' = NoThread
    /\ readerCount' = readerCount + Cardinality(BlockedReaders)
    /\ peakReaders' = IF readerCount' > peakReaders THEN readerCount' ELSE peakReaders
    /\ frames' = Pop(Unblock(frames), t)
    /\ UNCHANGED <<store, panicked, ret, added>>

\* A goroutine calls one of the read-only methods: next is c.mux.RLock().
CRead(t) ==
    /\ Idle(t)
    /\ frames' = Push(frames, t, Frame("RLock", <<>>, NoRet))
    /\ UNCHANGED <<store, panicked, ret, added, wlock, readerCount, peakReaders>>

\* Mutant: the method goes on without the read lock.
CRLock_NoLock(t) ==
    /\ At(t, "RLock")
    /\ frames' = SetTop(frames, t, Frame("RBody", <<>>, NoRet))
    /\ UNCHANGED <<store, panicked, ret, added, wlock, readerCount, peakReaders>>

\* c.mux.RLock(): granted, or the goroutine blocks.
CRLock(t) ==
    /\ At(t, "RLock")
    /\ IF RLockGranted
       THEN /\ readerCount' = readerCount + 1
            /\ frames' = SetTop(frames, t, Frame("RBody", <<>>, NoRet))
       ELSE /\ readerCount' = readerCount
            /\ frames' = SetTop(frames, t, Frame("RBlocked", <<>>, NoRet))
    /\ peakReaders' = IF readerCount' > peakReaders THEN readerCount' ELSE peakReaders
    /\ UNCHANGED <<store, panicked, ret, added, wlock>>

\* return c.ma.X(...): the delegate runs under the read lock and returns r.
Delegate(t, r) ==
    /\ At(t, "RBody")
    /\ frames' = SetTop(frames, t, Frame("RUnlock", <<>>, r))
    /\ UNCHANGED <<store, panicked, ret, added, wlock, readerCount, peakReaders>>

CWindow(t) == Delegate(t, WindowRet)

CSlotsFilled(t) == Delegate(t, SlotsFilledRet)

CValues(t) ==
    Delegate(t, Ret("Values", 0, FALSE, Fin(0), FALSE,
                    [arr |-> "retv", len |-> filledValues.len, own |-> Data(filledValues)]))

CCount(t) == Delegate(t, CountRet)

CAvg(t) == Delegate(t, AvgRet)

CMedian(t) == Delegate(t, MedianRet)

\* Mutant: Min hands back c.ma.Max().
CMin_AsMax(t) == Delegate(t, MaxRet)

CMin(t) == Delegate(t, MinRet)

CMax(t) == Delegate(t, MaxRet)

CUnsafeDoStat(t, f) == Delegate(t, UnsafeDoStatRet(f))

CUnsafeDo(t, f) == Delegate(t, UnsafeDoRet(f))

\* Mutant: the method returns with the read lock still held.
CRUnlock_Leak(t) ==
    /\ At(t, "RUnlock")
    /\ frames' = Pop(frames, t)
    /\ UNCHANGED <<store, panicked, ret, added, wlock, readerCount, peakReaders>>

\* The deferred c.mux.RUnlock() runs and the method returns.
CRUnlock(t) ==
    /\ At(t, "RUnlock")
    /\ readerCount' = readerCount - 1
    /\ frames' = Pop(frames, t)
    /\ UNCHANGED <<store, panicked, ret, added, wlock, peakReaders>>

NextC ==
    \/ \E t \in Threads : CAdd(t)
    \/ \E t \in Threads : CAddLock(t)
    \/ \E t \in Threads, vals \in ConcArgLists : CAddLocked(t, vals)
    \/ \E t \in Threads : CAddStep(t)
    \/ \E t \in Threads : CAddAdvance(t)
    \/ \E t \in Threads : CAddUnlock(t)
    \/ \E t \in Threads : CRead(t)
    \/ \E t \in Threads : CRLock(t)
    \/ \E t \in Threads : CWindow(t)
    \/ \E t \in Threads : CSlotsFilled(t)
    \/ \E t \in Threads : CValues(t)
    \/ \E t \in Threads : CCount(t)
    \/ \E t \in Threads : CAvg(t)
    \/ \E t \in Threads : CMedian(t)
    \/ \E t \in Threads : CMin(t)
    \/ \E t \in Threads : CMax(t)
    \/ \E t \in Threads, f \in StatReducers : CUnsafeDoStat(t, f)
    \/ \E t \in Threads, f \in DoReducers : CUnsafeDo(t, f)
    \/ \E t \in Threads : CRUnlock(t)

\* NewConcurrent(opts): the store of New(opts) behind a free mutex.  No goroutine
\* adds an infinity, so IgnoreInfValues makes no difference and is left unset.
InitC == Init /\ ~ignoreInfValues

SpecC == InitC /\ [][NextC]_vars

\* One goroutine alone uses the wrapped store, with every value and every
\* option the bare store of Spec is used with.
Caller == 1

NextD ==
    \/ CAdd(Caller)
    \/ CAddLock(Caller)
    \/ \E vals \in ArgLists : CAddLocked(Caller, vals)
    \/ CAddStep(Caller)
    \/ CAddAdvance(Caller)
    \/ CAddUnlock(Caller)
    \/ CRead(Caller)
    \/ CRLock(Caller)
    \/ CWindow(Caller)
    \/ CSlotsFilled(Caller)
    \/ CValues(Caller)
    \/ CCount(Caller)
    \/ CAvg(Caller)
    \/ CMedian(Caller)
    \/ CMin(Caller)
    \/ CMax(Caller)
    \/ \E f \in StatReducers : CUnsafeDoStat(Caller, f)
    \/ \E f \in DoReducers : CUnsafeDo(Caller, f)
    \/ CRUnlock(Caller)

SpecD == Init /\ [][NextD]_vars

\* ------------------------------------------ callbacks that call the wrapper
\* In SpecC the function passed to UnsafeDoStat or UnsafeDo runs in one step
\* and calls nothing.  Here it is a caller of the wrapper itself: it is entered
\* with the live slice under the read lock of the enclosing call ("Cb"), may
\* make one call of Add or of a read-only method on the same instance, whose
\* frame goes on top of its own ("CbBack" until that call returns), and then
\* returns its result computed from the slice.
\*   UnsafeDo, UnsafeDoStat:
\*     "RLock" -> ("RBlocked" ->) "RBody" -> "Cb" (-> "CbBack") -> "RUnlock" -> return
CbFrame(pc, f, r) == [pc |-> pc, vals |-> <<>>, ret |-> r, n |-> 0, f |-> f]

\* Mutant: the read lock is given up before f runs (RUnlock is not deferred).
CUnsafeDoStatEnter_Unlocked(t, f) ==
    /\ At(t, "RBody")
    /\ Len(frames[t]) = 1
    /\ readerCount' = readerCount - 1
    /\ frames' = SetTop(frames, t,
                        CbFrame("Cb", f, Ret("UnsafeDoStat", 0, FALSE, Fin(0), FALSE,
                                             filledValues)))
    /\ UNCHANGED <<store, panicked, ret, added, wlock, peakReaders>>

\* return c.ma.UnsafeDoStat(f): f is entered with the live slice.
CUnsafeDoStatEnter(t, f) ==
    /\ At(t, "RBody")
    /\ Len(frames[t]) = 1
    /\ frames' = SetTop(frames, t,
                        CbFrame("Cb", f, Ret("UnsafeDoStat", 0, FALSE, Fin(0), FALSE,
                                             filledValues)))
    /\ UNCHANGED <<store, panicked, ret, added, wlock, readerCount, peakReaders>>

\* return c.ma.UnsafeDo(f): f is entered with the live slice.
CUnsafeDoEnter(t, f) ==
    /\ At(t, "RBody")
    /\ Len(frames[t]) = 1
    /\ frames' = SetTop(frames, t,
                        CbFrame("Cb", f, Ret("UnsafeDo", 0, FALSE, Fin(0), FALSE,
                                             filledValues)))
    /\ UNCHANGED <<store, panicked, ret, added, wlock, readerCount, peakReaders>>

\* f calls c.Add(values...): next is c.mux.Lock().
CbAdd(t) ==
    /\ At(t, "Cb")
    /\ frames' = Push(SetTop(frames, t, [Top(t) EXCEPT !.pc = "CbBack"]), t,
                      Frame("Lock", <<>>, NoRet))
    /\ UNCHANGED <<store, panicked, ret, added, wlock, readerCount, peakReaders>>

\* f calls a read-only method of c: next is c.mux.RLock().
CbRead(t) ==
    /\ At(t, "Cb")
    /\ frames' = Push(SetTop(frames, t, [Top(t) EXCEPT !.pc = "CbBack"]), t,
                      Frame("RLock", <<>>, NoRet))
    /\ UNCHANGED <<store, panicked, ret, added, wlock, readerCount, peakReaders>>

\* f returns what it computes from the slice, and so does the delegate.
CbReturn(t) ==
    /\ At(t, "Cb") \/ At(t, "CbBack")
    /\ frames' = SetTop(frames, t,
                        Frame("RUnlock", <<>>,
                              IF Top(t).ret.op = "UnsafeDoStat"
                              THEN UnsafeDoStatRet(Top(t).f)
                              ELSE UnsafeDoRet(Top(t).f)))
    /\ UNCHANGED <<store, panicked, ret, added, wlock, readerCount, peakReaders>>

\* The goroutines of SpecR call Add with no value or with the value 1, Count,
\* UnsafeDoStat(stats.Mean) and UnsafeDo with the function that returns nil.
NestArgLists == {<<>>, <<Fin(1)>>}

NextR ==
    \/ \E t \in Threads : CAdd(t)
    \/ \E t \in Threads : CAddLock(t)
    \/ \E t \in Threads, vals \in NestArgLists : CAddLocked(t, vals)
    \/ \E t \in Threads : CAddStep(t)
    \/ \E t \in Threads : CAddAdvance(t)
    \/ \E t \in Threads : CAddUnlock(t)
    \/ \E t \in Threads : CRead(t)
    \/ \E t \in Threads : CRLock(t)
    \/ \E t \in Threads : CCount(t)
    \/ \E t \in Threads : CUnsafeDoStatEnter(t, "Mean")
    \/ \E t \in Threads : CUnsafeDoEnter(t, "Ok")
    \/ \E t \in Threads : CbAdd(t)
    \/ \E t \in Threads : CbRead(t)
    \/ \E t \in Threads : CbReturn(t)
    \/ \E t \in Threads : CRUnlock(t)

\* No goroutine of SpecR adds a NaN, so IgnoreNanValues is left unset too.
InitR == InitC /\ ~ignoreNanValues

SpecR == InitR /\ [][NextR]_vars

\* A step of goroutine t inside a call it has made: everything but the calls
\* from the idle state, which a goroutine is free never to make.
Proceed(t) ==
    \/ \E vals \in NestArgLists : CAddLocked(t, vals)
    \/ CAddStep(t)
    \/ CAddAdvance(t)
    \/ CAddUnlock(t)
    \/ CRLock(t)
    \/ CCount(t)
    \/ CUnsafeDoStatEnter(t, "Mean")
    \/ CUnsafeDoEnter(t, "Ok")
    \/ CbAdd(t)
    \/ CbRead(t)
    \/ CbReturn(t)
    \/ CRUnlock(t)

\* The Go scheduler runs every goroutine that can run, and a goroutine waiting
\* in sync.RWMutex.Lock for the write side is not overtaken for ever (the
\* mutex hands itself to a starving waiter).
FairSpecR ==
    /\ SpecR
    /\ \A t \in Threads : WF_vars(Proceed(t)) /\ SF_vars(CAddLock(t))

\* ----------------------------------------------------------------- claims
\* What the claims are stated against: the history of the values passed to Add.

\* A value the configured filters drop.
Filtered(v) ==
    \/ ignoreNanValues /\ v.kind = "nan"
    \/ ignoreInfValues /\ v.kind = "inf"

NotFiltered(v) == ~Filtered(v)

\* The values accepted so far, oldest first.
Accepted == SelectSeq(added, NotFiltered)

MinOf(a, b) == IF a <= b THEN a ELSE b

\* The last k elements of s.
LastN(s, k) == SubSeq(s, Len(s) - k + 1, Len(s))

CountIn(s, v) == Cardinality({i \in DOMAIN s : s[i] = v})

\* s and t hold the same values the same number of times.
SameBag(s, t) ==
    /\ Len(s) = Len(t)
    /\ \A i \in DOMAIN s : CountIn(s, s[i]) = CountIn(t, s[i])

\* A call that hands the live slice, or its copy, to the caller.
HandsSlice ==
    \/ Values
    \/ \E f \in StatReducers : UnsafeDoStat(f)
    \/ \E f \in DoReducers : UnsafeDo(f)

\* C1 as claimed: whenever at most window values have been added, Count() is the
\* number of non-filtered values added and SlotsFilled() is false.
C1_AsClaimed ==
    Len(added) <= window =>
        /\ CountRet.int = Len(Accepted)
        /\ SlotsFilledRet.bool = FALSE

\* C1 amended: whenever at most window values have been added, Count() is the
\* number of non-filtered values added, and SlotsFilled() is false unless
\* window values have been accepted, when it is true.
C1_CountUpToWindow ==
    Len(added) <= window =>
        /\ CountRet.int = Len(Accepted)
        /\ SlotsFilledRet.bool = (Len(Accepted) = window)

\* C1 witness: exactly window values were added, one of them filtered, and Count
\* returned the number of the others.
C1_Witness ==
    /\ window = 2
    /\ Len(added) = window
    /\ Len(Accepted) = 1
    /\ ret.op = "Count"
    /\ ret = CountRet
    /\ ret.int = 1

\* C2: once more than window values have been added and none was filtered,
\* Count() is window, SlotsFilled() is true and the live slice, as Values returns
\* it and as UnsafeDo/UnsafeDoStat pass it, holds as a multiset exactly the last
\* window values added.
C2_Overwritten == Len(added) > window /\ Accepted = added

C2_MostRecentWindow ==
    /\ [](C2_Overwritten =>
            /\ CountRet.int = window
            /\ SlotsFilledRet.bool
            /\ SameBag(Data(filledValues), LastN(added, window)))
    /\ [][(HandsSlice /\ C2_Overwritten) =>
            SameBag(Data(ret.slice)', LastN(added, window))]_vars

\* C2 witness: window 2 after three unfiltered values, the slice handed to an
\* UnsafeDo callback holding the last two with the newest in slot 0.
C2_Witness ==
    /\ window = 2
    /\ Len(added) = 3
    /\ Accepted = added
    /\ added[1] # added[3]
    /\ ret.op = "UnsafeDo"
    /\ ret.slice = filledValues
    /\ Data(ret.slice) = <<added[3], added[2]>>

\* C3: Count() is the smaller of the number of accepted values and the window,
\* never exceeds Window(), and no step makes it smaller.
C3_CountIsMin ==
    /\ [](/\ CountRet.int = MinOf(Len(Accepted), window)
          /\ CountRet.int <= WindowRet.int)
    /\ [][CountRet.int' >= CountRet.int]_vars

\* C3 witness: more values accepted than the window holds, some filtered on the
\* way, the cursor past the wrap, and Count returned the window.
C3_Witness ==
    /\ window = 1
    /\ Len(Accepted) = 2
    /\ Len(added) = 3
    /\ ret.op = "Count"
    /\ ret = CountRet
    /\ ret.int = window

\* C4: SlotsFilled() is false while fewer than window values have been accepted,
\* true from the Add step that accepts the window-th value, and stays true.
C4_FilledAtWindow ==
    /\ [](SlotsFilledRet.bool = (Len(Accepted) >= window))
    /\ [][slotsFilled => slotsFilled']_vars
    /\ [][(~slotsFilled /\ slotsFilled') =>
            /\ Len(Accepted) < window
            /\ Len(Accepted') >= window
            /\ Len(Accepted') = window => valPos' = 0]_vars

\* C4 witness: SlotsFilled returned true after the cursor wrapped and moved on.
C4_Witness ==
    /\ window = 2
    /\ Len(Accepted) = 3
    /\ valPos = 1
    /\ ret.op = "SlotsFilled"
    /\ ret.bool

\* C5: while the window is not filled the live slice is values[0..valPos), the
\* accepted values in insertion order, and Count, the four statistics, Values
\* and UnsafeDo/UnsafeDoStat all work on exactly these: no unwritten slot is
\* included.
C5_PartialWindow ==
    /\ [](~slotsFilled =>
            /\ filledValues.len = valPos
            /\ Data(filledValues) = Accepted
            /\ CountRet.int = Len(Accepted)
            /\ AvgRet.val = OrZero(Mean(Accepted))
            /\ MedianRet.val = OrZero(StatMedian(Accepted))
            /\ MinRet.val = OrZero(StatMin(Accepted))
            /\ MaxRet.val = OrZero(StatMax(Accepted))
            /\ \A f \in StatReducers :
                  /\ UnsafeDoStatRet(f).val = Apply(f, Accepted).val
                  /\ UnsafeDoStatRet(f).err = Apply(f, Accepted).err)
    /\ [][(HandsSlice /\ ~slotsFilled) => Data(ret.slice)' = Accepted]_vars

\* C5 witness: window 2 with one finite value added: Avg returned that value,
\* not its half.
C5_Witness ==
    /\ window = 2
    /\ ~slotsFilled
    /\ added = <<Fin(2)>>
    /\ ret.op = "Avg"
    /\ ret.val = Fin(2)

\* The values of s.
Range(s) == {s[i] : i \in DOMAIN s}

\* The ring fields.
ring == <<values, valPos, slotsFilled>>

\* C6: a value its filter drops changes nothing: an Add of dropped values alone
\* leaves values, valPos, slotsFilled and Count() as they were, the other values
\* of the same call are still written, and no dropped value is ever in the
\* buffer or in what Values returns.  (The step that lengthens the history is
\* the Add of the values it is lengthened by.)
C6_FilteredIgnored ==
    /\ [](\A i \in DOMAIN values : ~Filtered(values[i]))
    /\ [][Values => \A v \in Range(Data(ret.slice)') : ~Filtered(v)]_vars
    /\ [][added' # added =>
            LET vals == SubSeq(added', Len(added) + 1, Len(added'))
                kept == SelectSeq(vals, NotFiltered)
            IN  /\ Add(vals)
                /\ kept = <<>> => (ring' = ring /\ CountRet' = CountRet)
                /\ CountRet.int' = MinOf(CountRet.int + Len(kept), window)
                /\ kept # <<>> =>
                      values'[((valPos' + window - 1) % window) + 1] = kept[Len(kept)]]_vars

\* C6 witness: both filters set; NaN, 2 and -Inf were added and Values returned
\* the 2 alone.
C6_Witness ==
    /\ ignoreNanValues
    /\ ignoreInfValues
    /\ added = <<NaN, Fin(2), Inf(-1)>>
    /\ ret.op = "Values"
    /\ Data(ret.slice) = <<Fin(2)>>

\* C7: a value whose own filter flag is not set is accepted like any other: a
\* single-value Add writes it at valPos, advances the cursor modulo window, and
\* it counts in Count() and is in the live slice; ignoreNanValues alone does not
\* drop an infinity and ignoreInfValues alone does not drop a NaN.
C7_OwnFlag(v) ==
    \/ v.kind = "nan" /\ ignoreNanValues
    \/ v.kind = "inf" /\ ignoreInfValues

C7_OnlyOwnFlagDrops ==
    [][\A v \in Sample : (Add(<<v>>) /\ ~C7_OwnFlag(v)) =>
        /\ values' = [values EXCEPT ![valPos + 1] = v]
        /\ valPos' = (valPos + 1) % window
        /\ CountRet.int' = MinOf(CountRet.int + 1, window)
        /\ v \in Range(Data(filledValues)')]_vars

\* C7 witness: ignoreNanValues alone is set, a NaN and -Inf were added and
\* Values returned the -Inf.
C7_Witness ==
    /\ ignoreNanValues
    /\ ~ignoreInfValues
    /\ added = <<NaN, Inf(-1)>>
    /\ ret.op = "Values"
    /\ Data(ret.slice) = <<Inf(-1)>>

\* C8: before any Add, and whenever the live slice is empty, Avg(), Median(),
\* Min() and Max() return 0.0, Count() returns 0, SlotsFilled() returns false
\* and nothing has panicked.
C8_EmptyIsZero ==
    (added = <<>> \/ Data(filledValues) = <<>>) =>
        /\ AvgRet.val = Fin(0)
        /\ MedianRet.val = Fin(0)
        /\ MinRet.val = Fin(0)
        /\ MaxRet.val = Fin(0)
        /\ CountRet.int = 0
        /\ SlotsFilledRet.bool = FALSE
        /\ ~panicked

\* C8 witness: the one value added was filtered, the live slice is still empty
\* and Min returned 0.0.
C8_Witness ==
    /\ added = <<NaN>>
    /\ Data(filledValues) = <<>>
    /\ ret = MinRet
    /\ ret.val = Fin(0)

\* C9: Values() returns a fresh copy: the slice it returns holds the live values
\* in an array of its own, a write into it changes neither the store nor the
\* live slice, which is all that Values, Avg, Median, Min, Max and Count read,
\* and a later Add does not change it.
C9_ValuesIsACopy ==
    /\ [][Values => (Data(ret.slice)' = Data(filledValues) /\ ret.slice.arr' # "values")]_vars
    /\ [][(\E i \in 0..(MaxWindow - 1) : CallerWrite(i)) =>
            /\ store' = store
            /\ filledValues' = filledValues
            /\ Data(filledValues)' = Data(filledValues)
            /\ CountRet' = CountRet]_vars
    /\ [][(added' # added /\ ret.op = "Values") =>
            /\ Add(SubSeq(added', Len(added) + 1, Len(added')))
            /\ Data(ret.slice)' = Data(ret.slice)]_vars

\* C9 witness: the caller wrote into the slice Values returned and an Add came
\* after: the slice holds what the caller wrote, the store what was added.
C9_Witness ==
    /\ window = 2
    /\ added = <<Fin(1), Fin(2)>>
    /\ ret.op = "Values"
    /\ Data(ret.slice) = <<Scribble>>
    /\ Data(filledValues) = <<Fin(1), Fin(2)>>

\* A goroutine inside the critical section of Add: past c.mux.Lock(), before
\* the deferred Unlock.
InAdd(t) == \E i \in DOMAIN frames[t] : frames[t][i].pc \in {"Body", "Advance"}

\* A goroutine inside the critical section of a read-only method: past
\* c.mux.RLock(), before the deferred RUnlock.
InRead(t) ==
    \E i \in DOMAIN frames[t] : frames[t][i].pc \in {"RBody", "Cb", "CbBack", "RUnlock"}

\* C10: while one goroutine is inside Add on the wrapped store, no other
\* goroutine is inside Add or inside a read-only method.  (That read-only
\* methods can be inside together is what the witness shows.)
C10_AddExcludesAll ==
    \A t \in Threads : InAdd(t) =>
        \A u \in Threads \ {t} : ~InAdd(u) /\ ~InRead(u)

\* C10 witness: two read locks were held at once earlier on; now one goroutine
\* is half-way through an Add of two values and the other, which called a
\* read-only method, is blocked in RLock.
C10_Witness ==
    /\ peakReaders >= 2
    /\ \E t \in Threads, u \in Threads :
          /\ At(t, "Body")
          /\ Len(Top(t).vals) = 1
          /\ Len(added) >= 1
          /\ At(u, "RBlocked")

\* A goroutine whose callback has called Add on the same wrapper: the frame of
\* that Add lies on the frame of the UnsafeDo or UnsafeDoStat that runs the
\* callback.
NestedAdd(t) ==
    /\ Len(frames[t]) = 2
    /\ frames[t][2].pc \in {"Lock", "Drain", "Body", "Advance"}

\* C11: on a wrapped store a callback of UnsafeDoStat or UnsafeDo that calls
\* Add on the same wrapper never gets out of c.mux.Lock(): the goroutine holds
\* the read lock of the enclosing call all the while, the Add never reaches its
\* loop and writes nothing, and neither the Add nor the enclosing call returns.
C11_NestedAddDeadlocks ==
    /\ [](\A t \in Threads : NestedAdd(t) =>
            /\ frames[t][1].pc = "CbBack"
            /\ frames[t][2].pc \in {"Lock", "Drain"}
            /\ readerCount >= 1)
    /\ [][\A t \in Threads : NestedAdd(t) =>
            /\ NestedAdd(t)'
            /\ frames[t][1]' = frames[t][1]
            /\ readerCount' >= 1]_vars
    /\ [][\A t \in Threads :
            (NestedAdd(t) /\ frames[t][2].pc = "Drain") => (wlock' = t /\ ring' = ring)]_vars

\* C11 witness: the callback of an UnsafeDoStat called Add; the goroutine has
\* the write side of the mutex and waits for the readers to leave, of which it
\* is the only one.
C11_Witness ==
    \E t \in Threads :
        /\ NestedAdd(t)
        /\ frames[t][1].ret.op = "UnsafeDoStat"
        /\ frames[t][2].pc = "Drain"
        /\ wlock = t
        /\ readerCount = 1
        /\ added # <<>>

\* Every call a goroutine has made on the wrapper returns.
Returns == \A t \in Threads : (~Idle(t)) ~> Idle(t)

\* C12 as claimed: if no callback ever calls Add on the same instance, every
\* call returns, whatever else the callbacks do.
C12_AsClaimed == ([](\A t \in Threads : ~NestedAdd(t))) => Returns

\* C12 amended: if no callback ever calls a method of the same instance, every
\* call returns (and with it has given up the lock it took).
C12_ReturnsUnlessNested == ([](\A t \in Threads : Len(frames[t]) <= 1)) => Returns

\* C12 witness: one goroutine is in the callback of an UnsafeDo, which has made
\* no call, while another waits in Lock for it to leave.
C12_Witness ==
    \E t \in Threads, u \in Threads :
        /\ frames[t] # <<>>
        /\ Len(frames[t]) = 1
        /\ frames[t][1].pc = "Cb"
        /\ frames[t][1].ret.op = "UnsafeDo"
        /\ At(u, "Drain")
        /\ wlock = u
        /\ readerCount = 1

\* C13: whenever every Add called on the wrapped store has returned, Count()
\* is the smaller of the number of accepted values and the window,
\* SlotsFilled() tells whether that number has reached the window, the cursor
\* has advanced once per accepted value, and the live slice holds, as a
\* multiset, exactly the most recent accepted values: none lost, none twice.
C13_NoLostWrite ==
    (\A t \in Threads : ~InAdd(t)) =>
        /\ CountRet.int = MinOf(Len(Accepted), window)
        /\ SlotsFilledRet.bool = (Len(Accepted) >= window)
        /\ valPos = Len(Accepted) % window
        /\ SameBag(Data(filledValues), LastN(Accepted, MinOf(Len(Accepted), window)))
        /\ ~panicked

\* C13 witness: all calls have returned; three values, more than one Add call
\* can pass, were added and accepted in a window of 2, which holds the last two.
C13_Witness ==
    /\ \A t \in Threads : Idle(t)
    /\ window = 2
    /\ added = <<Fin(1), NaN, Fin(1)>>
    /\ Accepted = added
    /\ slotsFilled
    /\ valPos = 1
    /\ values = <<Fin(1), NaN>>
    /\ peakReaders = 0

\* The ring of a store that New has just made.
NewRing == Ring([i \in 1..window |-> Fin(0)], 0, FALSE, FALSE)

\* r is what the method r.op of the bare store returns in the current state
\* (for Values: a slice of an array of its own with the live values; for
\* UnsafeDoStat and UnsafeDo: what some reducer returns on the live slice, with
\* the live slice itself as what the reducer received).
BareReturns(r) ==
    CASE r.op = "Window" -> r = WindowRet
      [] r.op = "SlotsFilled" -> r = SlotsFilledRet
      [] r.op = "Values" ->
            /\ r.slice.arr = "retv"
            /\ r.slice.len = filledValues.len
            /\ Data(r.slice) = Data(filledValues)
      [] r.op = "Count" -> r = CountRet
      [] r.op = "Avg" -> r = AvgRet
      [] r.op = "Median" -> r = MedianRet
      [] r.op = "Min" -> r = MinRet
      [] r.op = "Max" -> r = MaxRet
      [] r.op = "UnsafeDoStat" -> \E f \in StatReducers : r = UnsafeDoStatRet(f)
      [] r.op = "UnsafeDo" -> \E f \in DoReducers : r = UnsafeDoRet(f)
      [] OTHER -> FALSE

\* C14: with a single caller the wrapper is transparent: the lock is free
\* whenever the caller is between calls and never makes it wait; between the
\* iterations of Add the store is the one the loop of the bare Add makes of a
\* new store and the values added so far; every read-only method of the
\* wrapper returns the result of the bare method of the same name in the
\* current state, and UnsafeDoStat and UnsafeDo pass the live slice itself.
C14_TransparentDecorator ==
    /\ [](Idle(Caller) => (wlock = NoThread /\ readerCount = 0))
    /\ [](~At(Caller, "RBlocked") /\ (At(Caller, "Drain") => readerCount = 0))
    /\ [](~At(Caller, "Advance") =>
            Ring(values, valPos, slotsFilled, panicked) = AddLoop(NewRing, added))
    /\ [](At(Caller, "RUnlock") => BareReturns(Top(Caller).ret))
    /\ [][/\ CWindow(Caller) => Top(Caller).ret.op' = "Window"
          /\ CSlotsFilled(Caller) => Top(Caller).ret.op' = "SlotsFilled"
          /\ CValues(Caller) => Top(Caller).ret.op' = "Values"
          /\ CCount(Caller) => Top(Caller).ret.op' = "Count"
          /\ CAvg(Caller) => Top(Caller).ret.op' = "Avg"
          /\ CMedian(Caller) => Top(Caller).ret.op' = "Median"
          /\ CMin(Caller) => Top(Caller).ret.op' = "Min"
          /\ CMax(Caller) => Top(Caller).ret.op' = "Max"
          /\ (\E f \in StatReducers : CUnsafeDoStat(Caller, f)) =>
                (Top(Caller).ret.op' = "UnsafeDoStat" /\ Top(Caller).ret.slice' = filledValues)
          /\ (\E f \in DoReducers : CUnsafeDo(Caller, f)) =>
                (Top(Caller).ret.op' = "UnsafeDo" /\ Top(Caller).ret.slice' = filledValues)]_vars

\* C14 witness: after Add(2, 1) and another call the wrapper's Min is about to
\* return 1, with the read lock held by the caller alone.
C14_Witness ==
    /\ window = 2
    /\ added = <<Fin(2), Fin(1)>>
    /\ At(Caller, "RUnlock")
    /\ Top(Caller).ret = MinRet
    /\ Top(Caller).ret.val = Fin(1)
    /\ MaxRet.val = Fin(2)
    /\ readerCount = 1
    /\ wlock = NoThread

\* What a convenience method makes of the result res of its statistics
\* function: 0.0 in place of an error, and no error of its own.
C15_Swallowed(r, res) ==
    /\ r.val = (IF res.err THEN Fin(0) ELSE res.val)
    /\ r.err = FALSE

\* C15: UnsafeDoStat(f) returns the value and the error of f applied to the
\* live slice itself, UnsafeDo(f) the error, in every state of the store; on
\* the empty store stats.Mean and stats.Max report an error, which comes back
\* with NaN, not 0.0.  Avg, Median, Min and Max return 0.0 and no error
\* whenever their statistics function reports one, and its value otherwise.
C15_ErrorsPropagate ==
    /\ [][\A f \in StatReducers : UnsafeDoStat(f) =>
            /\ ret.val' = Apply(f, Data(filledValues)).val
            /\ ret.err' = Apply(f, Data(filledValues)).err
            /\ ret.slice' = filledValues
            /\ Data(filledValues) = <<>> => (ret.err' /\ ret.val' = NaN)]_vars
    /\ [][\A f \in DoReducers : UnsafeDo(f) =>
            /\ ret.err' = Apply(f, Data(filledValues)).err
            /\ ret.err' = (f = "Fail")
            /\ ret.slice' = filledValues]_vars
    /\ [][/\ Avg => C15_Swallowed(ret', Mean(Data(filledValues)))
          /\ Median => C15_Swallowed(ret', StatMedian(Data(filledValues)))
          /\ Min => C15_Swallowed(ret', StatMin(Data(filledValues)))
          /\ Max => C15_Swallowed(ret', StatMax(Data(filledValues)))]_vars

\* C15 witness: the one value added was filtered, and UnsafeDoStat(stats.Mean)
\* returned NaN with the error of the empty input.
C15_Witness ==
    /\ added = <<Inf(1)>>
    /\ Data(filledValues) = <<>>
    /\ ret.op = "UnsafeDoStat"
    /\ ret.err
    /\ ret.val = NaN
    /\ AvgRet.val = Fin(0)

\* The number of values that the Add goroutine t is in has taken so far.
Taken(t) ==
    IF InAdd(t) THEN Top(t).n + (IF At(t, "Advance") THEN 1 ELSE 0) ELSE 0

RECURSIVE TakenUpTo(_)
TakenUpTo(k) == IF k = 0 THEN 0 ELSE Taken(k) + TakenUpTo(k - 1)

\* The values of the Add calls that have returned, in the order in which the
\* calls had the lock.
Completed == SubSeq(added, 1, Len(added) - TakenUpTo(NumThreads))

\* C16: a wrapped Add is atomic for every reader: while a goroutine holds the
\* read lock the store is what the bare Add loop makes of a new store and the
\* values of the Add calls that have returned, whole calls in lock order and
\* nothing of a call in progress; and what a read-only method is about to
\* return is the bare method's result in that state.
C16_AddIsAtomic ==
    \A u \in Threads :
        /\ InRead(u) =>
              /\ Ring(values, valPos, slotsFilled, panicked) = AddLoop(NewRing, Completed)
              /\ \A t \in Threads : Taken(t) = 0
        /\ At(u, "RUnlock") => BareReturns(Top(u).ret)

\* C16 witness: two values were added to a window of 2 and Count is about to
\* return 2, while the next Add waits in Lock for this reader to leave.
C16_Witness ==
    \E t \in Threads, u \in Threads :
        /\ window = 2
        /\ added = <<NaN, Fin(1)>>
        /\ peakReaders = 1
        /\ At(u, "RUnlock")
        /\ Top(u).ret.op = "Count"
        /\ Top(u).ret.int = 2
        /\ At(t, "Drain")

\* A goroutine whose UnsafeDo or UnsafeDoStat has entered its callback, which
\* has not returned.
InCallback(t) == \E i \in DOMAIN frames[t] : frames[t][i].pc \in {"Cb", "CbBack"}

\* C17: on the wrapped store, while a callback of UnsafeDo or UnsafeDoStat is
\* running, whatever the other goroutines call, no step changes values, valPos
\* or slotsFilled, no Add is in its loop, and the slice the callback received
\* is still the live slice with the contents it had.
C17_CallbackSeesConstantSlice ==
    /\ [](\A t \in Threads : InCallback(t) =>
            /\ frames[t][1].ret.slice = filledValues
            /\ \A u \in Threads : ~InAdd(u))
    /\ [][(\E t \in Threads : InCallback(t)) =>
            /\ ring' = ring
            /\ added' = added
            /\ Data(filledValues)' = Data(filledValues)]_vars

\* C17 witness: the callback of an UnsafeDoStat runs on the slice of the one
\* value added so far while the Add of another goroutine waits in Lock.
C17_Witness ==
    \E t \in Threads, u \in Threads :
        /\ window = 2
        /\ added = <<Fin(1)>>
        /\ At(t, "Cb")
        /\ Top(t).ret.op = "UnsafeDoStat"
        /\ Data(Top(t).ret.slice) = <<Fin(1)>>
        /\ At(u, "Drain")
        /\ wlock = u

\* C18: in a store made with a window of at least 1 the cursor is an index of
\* the buffer, the buffer has window slots, and the window, which Window()
\* returns, never changes; an Add of one accepted value writes it at
\* values[valPos], leaves every other slot as it was and moves the cursor to
\* (valPos + 1) mod window; an Add of any values changes as many slots at most
\* as it accepts values, and nothing has panicked.
C18_CursorInRange ==
    /\ [](/\ 0 <= valPos /\ valPos < window
          /\ Len(values) = window
          /\ WindowRet.int = window
          /\ window >= 1
          /\ ~panicked)
    /\ [][window' = window /\ WindowRet.int' = WindowRet.int /\ Len(values') = Len(values)]_vars
    /\ [][\A v \in Sample : (Add(<<v>>) /\ ~Filtered(v)) =>
            /\ values'[valPos + 1] = v
            /\ \A i \in DOMAIN values : i # valPos + 1 => values'[i] = values[i]
            /\ valPos' = (valPos + 1) % window]_vars
    /\ [][added' # added =>
            LET kept == SelectSeq(SubSeq(added', Len(added) + 1, Len(added')), NotFiltered)
            IN  /\ valPos' = (valPos + Len(kept)) % window
                /\ Cardinality({i \in DOMAIN values : values'[i] # values[i]}) <= Len(kept)]_vars

\* C18 witness: in a window of 2 the cursor is back at 0 after two accepted
\* values, the second of them in the last slot, and Window returned 2.
C18_Witness ==
    /\ window = 2
    /\ added = <<Fin(1), Fin(2)>>
    /\ valPos = 0
    /\ values = <<Fin(1), Fin(2)>>
    /\ ret.op = "Window"
    /\ ret.int = 2

\* The ring after Add(v1); ...; Add(vk), one call for each value of vals, from
\* the ring r.
RECURSIVE OneByOne(_, _)
OneByOne(r, vals) ==
    IF vals = <<>> THEN r
    ELSE OneByOne(AddLoop(r, <<Head(vals)>>), Tail(vals))

\* C19: from every reachable state, an Add of any list of values reaches the
\* values, valPos and slotsFilled that one Add per value, in argument order,
\* reaches from the same state; so the store is at all times what single Adds
\* of the values added so far make of a new store; and Add() with no values
\* changes nothing.
C19_VariadicIsSequential ==
    /\ [][added' # added =>
            Ring(values', valPos', slotsFilled', panicked') =
                OneByOne(Ring(values, valPos, slotsFilled, panicked),
                         SubSeq(added', Len(added) + 1, Len(added')))]_vars
    /\ [](Ring(values, valPos, slotsFilled, panicked) = OneByOne(NewRing, added))
    /\ [][Add(<<>>) => (ring' = ring /\ added' = added /\ ret' = ret)]_vars

\* C19 witness: a window of 1 after 1, 2 and -Inf were added in that order, by
\* one call or by several: the slot holds the last of them.
C19_Witness ==
    /\ window = 1
    /\ added = <<Fin(1), Fin(2), Inf(-1)>>
    /\ values = <<Inf(-1)>>
    /\ slotsFilled
    /\ ret = NoRet

\* C20 as claimed: with Window <= 0 either New fails, or it returns a store on
\* which no Add ever aborts: the only panic is that of the construction.
C20_NoAbortAfterNew == panicked => (window < 0 /\ added = <<>>)

====
